---- MODULE Spec2Model ----
(***************************************************************************)
(* Model of the maximum-independent-set benchmark pipeline:                *)
(*   repair_solution        (src/ibm_solver.py)        SpecRepair          *)
(*   split_until_small      (src/ibm_solver_large.py)  SpecSplit           *)
(*   solve_graph_parallel   (src/ibm_solver.py)        SpecSolve           *)
(*   run_with_timeout_fn and run_benchmark                                 *)
(*                          (src/benchmark_timeout.py) SpecBench           *)
(* Each specification drives one component; the variables of the other     *)
(* components keep their idle values.                                      *)
(***************************************************************************)
EXTENDS Integers, Sequences, FiniteSets, TLC

VARIABLES
    \* repair_solution
    rG,          \* G: the edge set of the graph, each edge a two-node set
    rS,          \* nodes: the candidate set handed to repair_solution
    current,     \* the working set `current`
    rpc,         \* "loop" while the while-loop runs, "done" after return
    rIters,      \* number of loop bodies that removed a node
    \* split_until_small
    spMax,       \* max_size
    stack,       \* the pending calls and loops of the recursion, top first
    pieces,      \* the node sets of the subgraphs returned so far, in order
    spOK,        \* every community detection so far returned a partition
    spOther,     \* number of detections that returned no partition
    spSingle,    \* every detection so far returned exactly one community
    \* solve_graph_parallel
    sG,          \* G: the edge set of the graph being solved
    att,         \* per attempt: "new", "queued", "running", "finished",
                 \* "collected"
    res,         \* per attempt: what its future holds once finished
    seen,        \* the attempts in the order as_completed yielded them
    fin,         \* the attempts in the order their futures completed
    snap,        \* how many futures were complete when as_completed began
                 \* (-1 before)
    best_size,   \* best_size
    best_nodes,  \* best_nodes
    spc,         \* "start", "submitted", "collect", "done", or "raised"
    \* run_with_timeout_fn
    rwPc,        \* "idle", "waiting" (in future.result), "exit" (leaving the
                 \* with block), "returned"
    work,        \* the submitted call: "none", "running", "value", "error"
    hangs,       \* the submitted call never finishes
    workVal,     \* what the submitted call returned
    expired,     \* timeout_seconds have passed since future.result began
    rwRet,       \* the (status, result) pair being returned
    \* run_benchmark
    csv,         \* OUTPUT_FILE: the rows of the table, in order
    sol,         \* GENERATED_SOL_DIR: per graph name its .sol file, or NoFile
    runs,        \* number of runs of run_benchmark started
    dpc,         \* "idle", "loop", "direct", "fallback", "evaluate"
    processed,   \* the set `processed`
    todo,        \* the files the for loop has still to visit
    name,        \* the loop's `name`
    old_ratio,   \* old_ratio, a fraction <<numerator, denominator>>
    status,      \* status
    too_many_edges,
    fallback_used,
    fallback_timeout,
    qaoa,        \* (qaoa_size, qaoa_nodes)
    \* solve_large_graph
    lG,          \* G: the edge set of the graph
    lMax,        \* desired_max
    lpc,         \* "idle", "start", "loop" (line 24), "done"
    lPieces,     \* the node sets of the subgraphs the loop has still to solve
    lSub,        \* sub_solutions, as a set of original node identifiers
    lCall,       \* the last call of solve_graph_parallel and what it returned
    lRet         \* (final_size, final_valid_nodes) or what line 14 returns

repairVars == <<rG, rS, current, rpc, rIters>>
splitVars == <<spMax, stack, pieces, spOK, spOther, spSingle>>

solveVars == <<sG, att, res, seen, fin, snap, best_size, best_nodes, spc>>

runnerVars == <<rwPc, work, hangs, workVal, expired, rwRet>>
driverVars == <<csv, sol, runs, dpc, processed, todo, name, old_ratio, status,
                too_many_edges, fallback_used, fallback_timeout, qaoa>>
benchVars == <<runnerVars, driverVars>>
largeVars == <<lG, lMax, lpc, lPieces, lSub, lCall, lRet>>

vars == <<rG, rS, current, rpc, rIters,
          spMax, stack, pieces, spOK, spOther, spSingle,
          sG, att, res, seen, fin, snap, best_size, best_nodes, spc,
          rwPc, work, hangs, workVal, expired, rwRet,
          csv, sol, runs, dpc, processed, todo, name, old_ratio, status,
          too_many_edges, fallback_used, fallback_timeout, qaoa,
          lG, lMax, lpc, lPieces, lSub, lCall, lRet>>

----------------------------------------------------------------------------
(* Bounds *)

\* number of nodes of the graphs handed to repair_solution
RepairNodes == 5
\* largest number of edges of those graphs
RepairEdges == 4
\* number of nodes of the graph handed to split_until_small
SplitNodes == 3
\* largest number of communities in a partition returned by the detection
MaxComms == 3
\* how many detections of one split may return something that is no partition
MaxOther == 1
\* number of nodes of the graph handed to solve_graph_parallel
SolveNodes == 2
\* config['MAX_ATTEMPTS']
NumAttempts == 2
\* config['MAX_WORKERS']
NumWorkers == 2
\* number of times run_benchmark is started
MaxRuns == 2
\* largest independent set a solver call returns for a benchmark instance
MaxSolSize == 3
\* number of nodes of the graph handed to solve_large_graph
LargeNodes == 3
\* largest number of edges of that graph
LargeEdges == 3

----------------------------------------------------------------------------
(* Graphs: a simple undirected loop-free graph is a set of two-node sets *)

NodeSet(n) == 0 .. (n - 1)

AllEdges(nodes) == {{u, v} : u \in nodes, v \in nodes} \ {{u} : u \in nodes}

Graphs(nodes, maxEdges) ==
    {E \in SUBSET AllEdges(nodes) : Cardinality(E) <= maxEdges}

\* G.neighbors(u)
Neighbors(G, u) == {v \in UNION G : {u, v} \in G /\ v # u}

IsIndependent(G, S) == \A u \in S : \A v \in S : {u, v} \notin G \/ u = v

----------------------------------------------------------------------------
(* repair_solution *)

\* u and v are joined by an edge of G
Adjacent(G, u, v) == u # v /\ {u, v} \in G

\* A mutated conflict scan: `u < v` tightened to `u + 1 < v`, so an edge
\* between nodes of consecutive identifiers is never seen.
ConflictsSkipConsecutive(G, cur) ==
    {c \in cur \X cur : c[1] + 1 < c[2] /\ Adjacent(G, c[1], c[2])}

\* the list `conflicts`: pairs (u, v), u < v, both in current, adjacent
Conflicts(G, cur) ==
    {c \in cur \X cur : c[1] < c[2] /\ Adjacent(G, c[1], c[2])}

\* counts[w] for the conflict list conf: the number of conflicts w takes
\* part in (0: w is no key of the dict)
Counts(conf, w) == Cardinality({c \in conf : c[1] = w \/ c[2] = w})

\* A mutated choice: min(counts, key=counts.get), the smallest value.
MaxCountLeast(conf) ==
    LET keys == {c[1] : c \in conf} \cup {c[2] : c \in conf}
    IN  CHOOSE m \in {Counts(conf, w) : w \in keys} :
            \A w \in keys : Counts(conf, w) >= m

\* the largest value of the dict counts
MaxCount(conf) ==
    LET keys == {c[1] : c \in conf} \cup {c[2] : c \in conf}
    IN  CHOOSE m \in {Counts(conf, w) : w \in keys} :
            \A w \in keys : Counts(conf, w) <= m

\* the conflicts appended while the outer loop is at u: (u, v) for v > u
Higher(conf, u) == {c[2] : c \in {x \in conf : x[1] = u}}

\* A mutated choice: any node of the working set may be dropped.
WorstChoicesAny(G, cur) == cur

\* worst = max(counts, key=counts.get): the first key, in the insertion
\* order of the dict, whose count is the largest.  Keys are inserted
\* conflict by conflict, u before v; the conflicts come grouped by u in the
\* iteration order of the set `current`, and inside a group in the order of
\* G.neighbors(u).  Neither order is fixed by the language, so the first
\* group that holds a key of largest count may be the group of any u that
\* has one: worst is u itself when u has the largest count, and otherwise
\* any neighbour v > u of largest count.  (Called with conflicts present.)
WorstChoices(G, cur) ==
    LET conf == Conflicts(G, cur)
        cnt == [w \in cur |-> Counts(conf, w)]
        mx == MaxCount(conf)
    IN  {w \in cur :
            /\ cnt[w] = mx
            /\ \E u \in cur :
                  /\ Higher(conf, u) # {}
                  /\ \/ w = u
                     \/ /\ w \in Higher(conf, u)
                        /\ cnt[u] < mx}

RepairIdle ==
    /\ rG = {}
    /\ rS = {}
    /\ current = {}
    /\ rpc = "idle"
    /\ rIters = 0

SplitIdle ==
    /\ spMax = 0
    /\ stack = <<>>
    /\ pieces = <<>>
    /\ spOK = TRUE
    /\ spOther = 0
    /\ spSingle = TRUE

NoResult == [success |-> FALSE, raised |-> FALSE, size |-> 0, nodes |-> {}]

SolveIdle ==
    /\ sG = {}
    /\ att = [i \in 0 .. (NumAttempts - 1) |-> "new"]
    /\ res = [i \in 0 .. (NumAttempts - 1) |-> NoResult]
    /\ seen = <<>>
    /\ fin = <<>>
    /\ snap = -1
    /\ best_size = 0
    /\ best_nodes = {}
    /\ spc = "idle"

\* the graph names of INSTANCE_DIR, sorted
Files == <<"a", "b", "c", "d">>

Names == {Files[i] : i \in DOMAIN Files}

NoFile == [present |-> FALSE, size |-> 0, nodes |-> {}]

NoSolution == [size |-> 0, nodes |-> {}]

NoReturn == [status |-> "", result |-> NoSolution]

BenchIdle ==
    /\ rwPc = "idle"
    /\ work = "none"
    /\ hangs = FALSE
    /\ workVal = NoSolution
    /\ expired = FALSE
    /\ rwRet = NoReturn
    /\ csv = <<>>
    /\ sol = [g \in Names |-> NoFile]
    /\ runs = 0
    /\ dpc = "idle"
    /\ processed = {}
    /\ todo = <<>>
    /\ name = ""
    /\ old_ratio = <<0, 1>>
    /\ status = ""
    /\ too_many_edges = FALSE
    /\ fallback_used = FALSE
    /\ fallback_timeout = FALSE
    /\ qaoa = NoSolution

\* no call of solve_graph_parallel made yet
NoCall == [made |-> FALSE, graph |-> {}, nodes |-> {}, result |-> NoSolution]

LargeIdle ==
    /\ lG = {}
    /\ lMax = 0
    /\ lpc = "idle"
    /\ lPieces = <<>>
    /\ lSub = {}
    /\ lCall = NoCall
    /\ lRet = NoSolution

\* the cycle 0-1-2-3-4-0, one more graph handed to repair_solution
FiveCycle == {{0, 1}, {1, 2}, {2, 3}, {3, 4}, {4, 0}}

RepairInit ==
    /\ SplitIdle
    /\ SolveIdle
    /\ BenchIdle
    /\ LargeIdle
    /\ rG \in Graphs(NodeSet(RepairNodes), RepairEdges) \cup {FiveCycle}
    /\ rS \in SUBSET NodeSet(RepairNodes)
    /\ current = rS
    /\ rpc = "loop"
    /\ rIters = 0

\* A mutated return: the loop already returns with one conflict left.
RepairReturnEarly ==
    /\ rpc = "loop"
    /\ Cardinality(Conflicts(rG, current)) <= 1
    /\ rpc' = "done"
    /\ UNCHANGED <<rG, rS, current, rIters>>
    /\ UNCHANGED <<splitVars, solveVars, benchVars, largeVars>>

\* `if not conflicts: return list(current)`
RepairReturn ==
    /\ rpc = "loop"
    /\ Conflicts(rG, current) = {}
    /\ rpc' = "done"
    /\ UNCHANGED <<rG, rS, current, rIters>>
    /\ UNCHANGED <<splitVars, solveVars, benchVars, largeVars>>

\* A mutated loop body: current.remove(worst) is left out.
RepairRemoveNothing ==
    /\ rpc = "loop"
    /\ Conflicts(rG, current) # {}
    /\ rIters' = rIters + 1
    /\ UNCHANGED <<rG, rS, current, rpc>>
    /\ UNCHANGED <<splitVars, solveVars, benchVars, largeVars>>

\* one loop body that ends in current.remove(worst)
RepairRemove ==
    /\ rpc = "loop"
    /\ Conflicts(rG, current) # {}
    /\ \E worst \in WorstChoices(rG, current) :
          current' = current \ {worst}
    /\ rIters' = rIters + 1
    /\ UNCHANGED <<rG, rS, rpc>>
    /\ UNCHANGED <<splitVars, solveVars, benchVars, largeVars>>

RepairNext == RepairReturn \/ RepairRemove

SpecRepair == RepairInit /\ [][RepairNext]_vars

\* repair_solution as a function: every set it can return for (G, nodes)
RECURSIVE RepairOutcomes(_, _)
RepairOutcomes(G, cur) ==
    IF Conflicts(G, cur) = {}
    THEN {cur}
    ELSE UNION {RepairOutcomes(G, cur \ {w}) : w \in WorstChoices(G, cur)}

----------------------------------------------------------------------------
(* _solve_attempt and solve_graph_parallel *)

Attempts == 0 .. (NumAttempts - 1)

\* What the body of the try block of _solve_attempt can come to: an
\* exception, or best_nodes, the largest repair_solution(G, raw) over the
\* sampled candidates raw (any node subset; the empty list without one).
OracleOutcomes(G, nodes) ==
    {[raised |-> TRUE, best |-> {}]}
        \cup {[raised |-> FALSE, best |-> r] :
                 r \in UNION {RepairOutcomes(G, raw) : raw \in SUBSET nodes}}

\* A mutated _solve_attempt without the try/except: the exception of the
\* oracle is left in the future.
AttemptResultNoCatch(o) ==
    IF o.raised
    THEN [success |-> FALSE, raised |-> TRUE, size |-> 0, nodes |-> {}]
    ELSE [success |-> TRUE, raised |-> FALSE,
          size |-> Cardinality(o.best), nodes |-> o.best]

\* the dict _solve_attempt returns: `except Exception` gives
\* {"success": False, ...}, else {"success": True, "size": len(best_nodes),
\* "nodes": best_nodes}
AttemptResult(o) ==
    IF o.raised
    THEN [success |-> FALSE, raised |-> FALSE, size |-> 0, nodes |-> {}]
    ELSE [success |-> TRUE, raised |-> FALSE,
          size |-> Cardinality(o.best), nodes |-> o.best]

\* A mutated selection: only the first successful result is ever taken.
BetterFirstOnly(r, size) == r.success /\ size = 0 /\ r.size > size

\* `if res['success'] and res['size'] > best_size`
Better(r, size) == r.success /\ r.size > size

SolveInit ==
    /\ RepairIdle
    /\ SplitIdle
    /\ BenchIdle
    /\ LargeIdle
    /\ sG \in Graphs(NodeSet(SolveNodes), Cardinality(AllEdges(NodeSet(SolveNodes))))
    /\ att = [i \in Attempts |-> "new"]
    /\ res = [i \in Attempts |-> NoResult]
    /\ seen = <<>>
    /\ fin = <<>>
    /\ snap = -1
    /\ best_size = 0
    /\ best_nodes = {}
    /\ spc = "start"

\* futures = [executor.submit(_solve_attempt, i, ...) for i in range(...)]
SolveSubmit ==
    /\ spc = "start"
    /\ att' = [i \in Attempts |-> "queued"]
    /\ spc' = "submitted"
    /\ UNCHANGED <<sG, res, seen, fin, snap, best_size, best_nodes>>
    /\ UNCHANGED <<repairVars, splitVars, benchVars, largeVars>>

\* a free worker of the pool takes the oldest queued attempt
WorkerStart(i) ==
    /\ att[i] = "queued"
    /\ \A j \in Attempts : j < i => att[j] # "queued"
    /\ Cardinality({j \in Attempts : att[j] = "running"}) < NumWorkers
    /\ att' = [att EXCEPT ![i] = "running"]
    /\ UNCHANGED <<sG, res, seen, fin, snap, best_size, best_nodes, spc>>
    /\ UNCHANGED <<repairVars, splitVars, benchVars, largeVars>>

\* _solve_attempt(i, ...) returns in its worker
WorkerFinish(i) ==
    /\ att[i] = "running"
    /\ \E o \in OracleOutcomes(sG, NodeSet(SolveNodes)) :
          res' = [res EXCEPT ![i] = AttemptResult(o)]
    /\ att' = [att EXCEPT ![i] = "finished"]
    /\ fin' = Append(fin, i)
    /\ UNCHANGED <<sG, seen, snap, best_size, best_nodes, spc>>
    /\ UNCHANGED <<repairVars, splitVars, benchVars, largeVars>>

\* `for future in as_completed(futures)` begins: as_completed collects the
\* futures that are complete already into a set
AsCompletedBegins ==
    /\ spc = "submitted"
    /\ snap' = Len(fin)
    /\ spc' = "collect"
    /\ UNCHANGED <<sG, att, res, seen, fin, best_size, best_nodes>>
    /\ UNCHANGED <<repairVars, splitVars, benchVars, largeVars>>

\* A mutated iteration: the futures are taken in the order of submission,
\* `for future in futures`.
NextYieldedInSubmissionOrder(i) ==
    /\ att[i] = "finished"
    /\ \A j \in Attempts : j < i => att[j] = "collected"

\* The future as_completed yields next: any one of the set it began with,
\* in no order, and once these are out the others in the order they
\* complete.
NextYielded(i) ==
    /\ att[i] = "finished"
    /\ IF Len(seen) < snap
       THEN \E k \in 1 .. snap : fin[k] = i
       ELSE Len(fin) > Len(seen) /\ fin[Len(seen) + 1] = i

\* one round of `for future in as_completed(futures)`: future.result()
\* re-raises what the attempt raised, else the result is compared
Collect(i) ==
    /\ spc = "collect"
    /\ NextYielded(i)
    /\ att' = [att EXCEPT ![i] = "collected"]
    /\ seen' = Append(seen, i)
    /\ IF res[i].raised
       THEN /\ spc' = "raised"
            /\ UNCHANGED <<best_size, best_nodes>>
       ELSE /\ spc' = spc
            /\ IF Better(res[i], best_size)
               THEN /\ best_size' = res[i].size
                    /\ best_nodes' = res[i].nodes
               ELSE UNCHANGED <<best_size, best_nodes>>
    /\ UNCHANGED <<sG, res, fin, snap>>
    /\ UNCHANGED <<repairVars, splitVars, benchVars, largeVars>>

\* as_completed is exhausted, the pool shuts down: return best_size, best_nodes
SolveReturn ==
    /\ spc = "collect"
    /\ \A i \in Attempts : att[i] = "collected"
    /\ spc' = "done"
    /\ UNCHANGED <<sG, att, res, seen, fin, snap, best_size, best_nodes>>
    /\ UNCHANGED <<repairVars, splitVars, benchVars, largeVars>>

SolveNext ==
    \/ SolveSubmit
    \/ AsCompletedBegins
    \/ \E i \in Attempts : WorkerStart(i)
    \/ \E i \in Attempts : WorkerFinish(i)
    \/ \E i \in Attempts : Collect(i)
    \/ SolveReturn

SpecSolve == SolveInit /\ [][SolveNext]_vars

----------------------------------------------------------------------------
(* Claims about repair_solution *)

\* C2: for every graph G and node subset S, the set repair_solution returns
\* is a subset of S and holds no two nodes adjacent in G.
RepairSubsetIndependent ==
    rpc = "done" => (current \subseteq rS /\ IsIndependent(rG, current))

\* C2 witness: a return after at least two removals, with nodes left.
RepairSubsetIndependentWitness ==
    rpc = "done" /\ rIters >= 2 /\ current # {}

\* C3 as stated: the returned set is a maximal independent subset of S, no
\* node of S outside it can be added without creating an adjacent pair.
RepairMaximal ==
    rpc = "done" =>
        \A w \in rS \ current : \E v \in current : {w, v} \in rG

\* C3 amended: the returned set is an independent subset of S that keeps
\* every node of S that has no neighbour inside S (only nodes that were in
\* a conflict are ever removed); it need not be maximal.
RepairKeepsConflictFree ==
    /\ \A w \in rS : Neighbors(rG, w) \cap rS = {} => w \in current
    /\ rpc = "done" => IsIndependent(rG, current)

\* C3 witness: a return that removed nodes while S also held a node with
\* no neighbour in S.
RepairKeepsConflictFreeWitness ==
    /\ rpc = "done"
    /\ rIters >= 1
    /\ \E w \in rS : Neighbors(rG, w) \cap rS = {}

\* C17: repair_solution is idempotent: applied to a set it has returned
\* it returns that set again, whatever choices it makes, and it returns an
\* independent input set as it is.
RepairIdempotent ==
    /\ rpc = "done" => RepairOutcomes(rG, current) = {current}
    /\ IsIndependent(rG, rS) =>
          (current = rS /\ rIters = 0 /\ RepairOutcomes(rG, rS) = {rS})

\* C17 witness: a returned set of at least two nodes that is smaller than
\* the input.
RepairIdempotentWitness ==
    /\ rpc = "done"
    /\ rIters >= 1
    /\ Cardinality(current) >= 2

\* C18: in every loop body that finds a conflict exactly one node leaves
\* the working set, and no node of the working set takes part in more
\* conflicts than it; on the 5-cycle with the candidates {0, 1, 2} node 1
\* is removed and {0, 2} is returned.
RemovesMostConflicting ==
    /\ [][current' # current =>
             LET conf == Conflicts(rG, current)
             IN  \E w \in current \ current' :
                     /\ current' = current \ {w}
                     /\ Counts(conf, w) > 0
                     /\ \A u \in current :
                           Counts(conf, u) <= Counts(conf, w)]_vars
    /\ []((rG = FiveCycle /\ rS = {0, 1, 2}) =>
             /\ current \in {{0, 1, 2}, {0, 2}}
             /\ rpc = "done" => (current = {0, 2} /\ rIters = 1))

\* C18 witness: the 5-cycle scenario has returned.
RemovesMostConflictingWitness ==
    /\ rpc = "done"
    /\ rG = FiveCycle
    /\ rS = {0, 1, 2}
    /\ current = {0, 2}

\* the number of times the loop body has run: the bodies that removed a
\* node, and the one that returned
BodyRuns == rIters + (IF rpc = "done" THEN 1 ELSE 0)

\* C19 as stated: the loop body runs at most |nodes| times, for the empty
\* input too.
RepairBodyRunsAtMostNodes == BodyRuns <= Cardinality(rS)

\* C19 amended: repair_solution always terminates: every loop body either
\* returns or removes exactly one node, so at most |nodes| - 1 bodies
\* remove a node (none for the empty input) and the body that returns is
\* run once more: the loop body runs at most |nodes| times for a non-empty
\* input and exactly once for the empty one.
RepairTerminates ==
    /\ [](/\ rIters + Cardinality(current) = Cardinality(rS)
          /\ rS # {} => (rIters <= Cardinality(rS) - 1
                            /\ BodyRuns <= Cardinality(rS))
          /\ rS = {} => (rIters = 0 /\ BodyRuns <= 1))
    /\ [][/\ rpc = "loop"
          /\ \/ rpc' = "done" /\ current' = current
             \/ /\ rpc' = "loop"
                /\ current' \subseteq current
                /\ Cardinality(current') = Cardinality(current) - 1]_vars

\* C19 witness: a return after as many removals as a non-empty input
\* allows, all nodes but one.
RepairTerminatesWitness ==
    /\ rpc = "done"
    /\ rIters = Cardinality(rS) - 1
    /\ rIters >= 2

----------------------------------------------------------------------------
(* split_until_small *)

\* Every way the community detection can split the node set S into at most
\* k non-empty, pairwise disjoint communities that cover S, as a sequence.
RECURSIVE PartitionSeqs(_, _)
PartitionSeqs(S, k) ==
    IF S = {} THEN {<<>>}
    ELSE IF k = 0 THEN {}
    ELSE UNION {{<<B>> \o rest : rest \in PartitionSeqs(S \ B, k - 1)} :
                   B \in (SUBSET S) \ {{}}}

\* Outputs that are no partition of S: no community at all, one community
\* that is not S, or two arbitrary node subsets (overlapping, not covering,
\* empty, or as large as S).
OtherSeqs(S) ==
    ({<<>>} \cup {<<c>> : c \in SUBSET S}
            \cup {<<c, d>> : c \in SUBSET S, d \in SUBSET S})
        \ PartitionSeqs(S, 2)

\* communities = list(louvain_communities(G)) or, when that raises,
\* list(greedy_modularity_communities(G)): an external heuristic, any
\* output; `others` is the number of non-partitions returned so far
Communities(S, others) ==
    PartitionSeqs(S, MaxComms)
        \cup (IF others < MaxOther THEN OtherSeqs(S) ELSE {})

IsPartition(S, comms) == comms \in PartitionSeqs(S, Len(comms))

\* A mutated size test: one node too many still counts as fitting.
FitsOffByOne(n, maxSize) == n <= maxSize + 1

\* `n <= max_size` (line 79) and `sub.number_of_nodes() <= max_size` (109)
Fits(n, maxSize) == n <= maxSize

\* A mutated safety test: the check for strict size reduction is gone.
NotSmallerNever(S, n) == FALSE

\* `sub.number_of_nodes() >= n`: the community is not smaller than its parent
NotSmaller(S, n) == Cardinality(S) >= n

\* A mutated bisection: the node at index mid is in neither half.
HalvesDropMid(S) ==
    {<<A, B>> \in (SUBSET S) \X (SUBSET S) :
        /\ Cardinality(A) = Cardinality(S) \div 2
        /\ A \cap B = {}
        /\ Cardinality(B) = Cardinality(S) - Cardinality(A) - 1}

\* nodes = list(G.nodes()); mid = len(nodes) // 2; nodes[:mid], nodes[mid:].
\* The order of the list is the iteration order of the (sub)graph's nodes,
\* which a subgraph copy may permute: the first half is any mid nodes.
Halves(S) ==
    {<<A, S \ A>> : A \in {X \in SUBSET S :
                              Cardinality(X) = Cardinality(S) \div 2}}

\* a pending call split_until_small(G.subgraph(S), max_size) made by an
\* invocation whose graph has `parent` nodes (0: the outermost call)
CallFrame(S, parent) ==
    [kind |-> "call", nodes |-> S, parent |-> parent, comms |-> <<>>]

\* the `for comm in communities` loop of an invocation on the node set S,
\* with the communities still to visit
LoopFrame(S, parent, comms) ==
    [kind |-> "loop", nodes |-> S, parent |-> parent, comms |-> comms]

SplitInit ==
    /\ RepairIdle
    /\ SolveIdle
    /\ BenchIdle
    /\ LargeIdle
    /\ spMax \in 1 .. SplitNodes
    /\ stack = <<CallFrame(NodeSet(SplitNodes), 0)>>
    /\ pieces = <<>>
    /\ spOK = TRUE
    /\ spOther = 0
    /\ spSingle = TRUE

\* `if n <= max_size: return [G]`
SplitFits ==
    /\ stack # <<>>
    /\ Head(stack).kind = "call"
    /\ Fits(Cardinality(Head(stack).nodes), spMax)
    /\ pieces' = Append(pieces, Head(stack).nodes)
    /\ stack' = Tail(stack)
    /\ UNCHANGED <<spMax, spOK, spOther, spSingle>>
    /\ UNCHANGED <<repairVars, solveVars, benchVars, largeVars>>

\* the detection returns one community: bisect and recurse on both halves
SplitBisect ==
    /\ stack # <<>>
    /\ Head(stack).kind = "call"
    /\ ~Fits(Cardinality(Head(stack).nodes), spMax)
    /\ LET S == Head(stack).nodes
           n == Cardinality(S)
       IN  \E comms \in Communities(S, spOther) :
              /\ Len(comms) = 1
              /\ spSingle' = spSingle
              /\ spOK' = (spOK /\ IsPartition(S, comms))
              /\ spOther' = IF IsPartition(S, comms) THEN spOther
                                                     ELSE spOther + 1
              /\ \E h \in Halves(S) :
                    stack' = <<CallFrame(h[1], n), CallFrame(h[2], n)>>
                                 \o Tail(stack)
    /\ UNCHANGED <<spMax, pieces>>
    /\ UNCHANGED <<repairVars, solveVars, benchVars, largeVars>>

\* the detection returns no or several communities: enter the for loop
SplitCommunities ==
    /\ stack # <<>>
    /\ Head(stack).kind = "call"
    /\ ~Fits(Cardinality(Head(stack).nodes), spMax)
    /\ LET S == Head(stack).nodes
       IN  \E comms \in Communities(S, spOther) :
              /\ Len(comms) # 1
              /\ spSingle' = FALSE
              /\ spOK' = (spOK /\ IsPartition(S, comms))
              /\ spOther' = IF IsPartition(S, comms) THEN spOther
                                                     ELSE spOther + 1
              /\ stack' = <<LoopFrame(S, Head(stack).parent, comms)>>
                              \o Tail(stack)
    /\ UNCHANGED <<spMax, pieces>>
    /\ UNCHANGED <<repairVars, solveVars, benchVars, largeVars>>

\* loop body, `if sub.number_of_nodes() >= n`: both halves are appended
LoopSafety ==
    /\ stack # <<>>
    /\ Head(stack).kind = "loop"
    /\ Head(stack).comms # <<>>
    /\ LET f == Head(stack)
           sub == Head(f.comms) \cap f.nodes
       IN  /\ NotSmaller(sub, Cardinality(f.nodes))
           /\ \E h \in Halves(sub) :
                 pieces' = pieces \o <<h[1], h[2]>>
           /\ stack' = <<LoopFrame(f.nodes, f.parent, Tail(f.comms))>>
                           \o Tail(stack)
    /\ UNCHANGED <<spMax, spOK, spOther, spSingle>>
    /\ UNCHANGED <<repairVars, solveVars, benchVars, largeVars>>

\* loop body, `elif sub.number_of_nodes() <= max_size`: sub is a leaf
LoopLeaf ==
    /\ stack # <<>>
    /\ Head(stack).kind = "loop"
    /\ Head(stack).comms # <<>>
    /\ LET f == Head(stack)
           sub == Head(f.comms) \cap f.nodes
       IN  /\ ~NotSmaller(sub, Cardinality(f.nodes))
           /\ Fits(Cardinality(sub), spMax)
           /\ pieces' = Append(pieces, sub)
           /\ stack' = <<LoopFrame(f.nodes, f.parent, Tail(f.comms))>>
                           \o Tail(stack)
    /\ UNCHANGED <<spMax, spOK, spOther, spSingle>>
    /\ UNCHANGED <<repairVars, solveVars, benchVars, largeVars>>

\* loop body, `else`: recurse on sub
LoopRecurse ==
    /\ stack # <<>>
    /\ Head(stack).kind = "loop"
    /\ Head(stack).comms # <<>>
    /\ LET f == Head(stack)
           sub == Head(f.comms) \cap f.nodes
       IN  /\ ~NotSmaller(sub, Cardinality(f.nodes))
           /\ ~Fits(Cardinality(sub), spMax)
           /\ stack' = <<CallFrame(sub, Cardinality(f.nodes)),
                         LoopFrame(f.nodes, f.parent, Tail(f.comms))>>
                           \o Tail(stack)
    /\ UNCHANGED <<spMax, pieces, spOK, spOther, spSingle>>
    /\ UNCHANGED <<repairVars, solveVars, benchVars, largeVars>>

\* the loop is over: `return result`
LoopReturn ==
    /\ stack # <<>>
    /\ Head(stack).kind = "loop"
    /\ Head(stack).comms = <<>>
    /\ stack' = Tail(stack)
    /\ UNCHANGED <<spMax, pieces, spOK, spOther, spSingle>>
    /\ UNCHANGED <<repairVars, solveVars, benchVars, largeVars>>

SplitNext ==
    \/ SplitFits
    \/ SplitBisect
    \/ SplitCommunities
    \/ LoopSafety
    \/ LoopLeaf
    \/ LoopRecurse
    \/ LoopReturn

SpecSplit == SplitInit /\ [][SplitNext]_vars

----------------------------------------------------------------------------
(* Claims about split_until_small *)

SplitDone == stack = <<>>

PieceSizesOK == \A i \in DOMAIN pieces : Cardinality(pieces[i]) <= spMax

\* C4: for every max_size >= 1, as long as every community detection
\* returned a partition of its graph's nodes into non-empty subsets, every
\* piece returned by split_until_small has at most max_size nodes.
SplitSizeBound == spOK => PieceSizesOK

\* C4 witness: a finished split into single nodes that recursed through
\* partitions returned by the detection.
SplitSizeBoundWitness ==
    /\ SplitDone
    /\ spOK
    /\ ~spSingle
    /\ spMax = 1
    /\ Len(pieces) = SplitNodes

\* C5: as long as every community detection returned a partition into
\* non-empty subsets, the returned pieces are pairwise node-disjoint and
\* their union is the node set of G, also when every level bisects.
SplitIsPartition ==
    (SplitDone /\ spOK) =>
        /\ \A i \in DOMAIN pieces : \A j \in DOMAIN pieces :
              i # j => pieces[i] \cap pieces[j] = {}
        /\ UNION {pieces[i] : i \in DOMAIN pieces} = NodeSet(SplitNodes)

\* C5 witness: a finished split in which every level fell back to bisection
\* and that went at least two levels deep.
SplitIsPartitionWitness ==
    /\ SplitDone
    /\ spOK
    /\ spSingle
    /\ Len(pieces) >= 3

\* every pending recursive call is on strictly fewer nodes than its parent
SplitCallsShrink ==
    \A i \in DOMAIN stack :
        (stack[i].kind = "call" /\ stack[i].parent # 0)
            => Cardinality(stack[i].nodes) < stack[i].parent

\* the largest number of communities one detection returns in this model
MaxLen == IF MaxComms > 2 THEN MaxComms ELSE 2

\* the rank of a pending call on n nodes: more than the rank of everything
\* the call can put on the stack in its place
RECURSIVE CallRank(_)
CallRank(n) == IF n <= 0 THEN 1 ELSE MaxLen * (CallRank(n - 1) + 1) + 2

\* the rank of a frame: a loop with k communities left on a graph of n
\* nodes may still push k calls on fewer than n nodes
FrameRank(f) ==
    IF f.kind = "call"
    THEN CallRank(Cardinality(f.nodes))
    ELSE Len(f.comms) * (CallRank(Cardinality(f.nodes) - 1) + 1) + 1

RECURSIVE Rank(_)
Rank(stk) == IF stk = <<>> THEN 0 ELSE FrameRank(Head(stk)) + Rank(Tail(stk))

\* C6: split_until_small terminates whatever the community detection
\* returns at each level: every recursive call is made on strictly fewer
\* nodes than its parent, and every step of the recursion lowers a rank
\* that is a natural number, so only finitely many steps can follow.
SplitTerminates ==
    []SplitCallsShrink /\ [][Rank(stack') < Rank(stack)]_vars

\* C6 witness: a split that has finished although a detection returned
\* something that is no partition, after at least one recursive call.
SplitTerminatesWitness ==
    /\ SplitDone
    /\ ~spOK
    /\ Len(pieces) >= 3

\* C7 as stated: the size bound does not depend on what the detection
\* returns; every returned piece has at most max_size nodes.
SplitSizeBoundAnyOutput == SplitDone => PieceSizesOK

\* the nodes of S that a path inside S joins to a node of R
RECURSIVE Reach(_, _, _)
Reach(G, S, R) ==
    LET next == R \cup {v \in S : \E u \in R : {u, v} \in G}
    IN  IF next = R THEN R ELSE Reach(G, S, next)

\* the subgraph of G induced by S is connected (an empty S counts as such)
Connected(G, S) ==
    S = {} \/ Reach(G, S, {CHOOSE x \in S : TRUE}) = S

\* C13 as stated: every piece returned by split_until_small induces a
\* connected subgraph of the original graph, whatever the edges of that
\* graph are.  (The split reads the edges only through the community
\* detection, so one run of it stands for every graph on the nodes.)
SplitPiecesConnected ==
    \A G \in SUBSET AllEdges(NodeSet(SplitNodes)) :
        \A i \in DOMAIN pieces : Connected(G, pieces[i])

----------------------------------------------------------------------------
(* Claims about solve_graph_parallel *)

Succeeded == {i \in Attempts : res[i].success}

\* C8: the size solve_graph_parallel returns is never larger than the
\* largest size among its attempts' repaired results, and is exactly that
\* largest size when at least one attempt succeeded, whatever the order in
\* which the attempts complete and are collected.
SolveReturnsMax ==
    spc = "done" =>
        /\ \/ best_size = 0
           \/ \E i \in Succeeded : best_size <= res[i].size
        /\ Succeeded # {} =>
              /\ \E i \in Succeeded : best_size = res[i].size
              /\ \A i \in Succeeded : res[i].size <= best_size

\* C8 witness: a return where the attempt collected first was not attempt 0
\* and a later, larger result replaced a smaller successful one.
SolveReturnsMaxWitness ==
    /\ spc = "done"
    /\ seen[1] # 0
    /\ res[seen[1]].success
    /\ res[seen[1]].size > 0
    /\ res[seen[1]].size < best_size

\* C9: a failing attempt never keeps the other attempts from being
\* collected and compared (the call does not raise, and it returns only
\* after every attempt was collected), and when every attempt fails the
\* call returns size 0 with no nodes.
SolveIsolatesFailures ==
    /\ spc # "raised"
    /\ spc = "done" =>
          /\ \A i \in Attempts : att[i] = "collected"
          /\ Succeeded = {} => (best_size = 0 /\ best_nodes = {})
          /\ \A i \in Succeeded : best_size >= res[i].size

\* C9 witness: a return where the first attempt collected had failed and a
\* later attempt's result was taken.
SolveIsolatesFailuresWitness ==
    /\ spc = "done"
    /\ ~res[seen[1]].success
    /\ best_size > 0

\* the place of attempt i in a sequence of attempts that holds it
Pos(seq, i) == CHOOSE k \in 1 .. Len(seq) : seq[k] = i

\* of the attempts S, all in seq, the one that comes first in seq
FirstOf(seq, S) == CHOOSE i \in S : \A j \in S : Pos(seq, i) <= Pos(seq, j)

\* the successful attempts whose size is the size returned
Top == {i \in Succeeded : res[i].size = best_size}

\* best_size and best_nodes change only in a round of the loop whose
\* result is successful and strictly larger than the stored size, and then
\* take that result's values.
ReplacedOnlyByLarger ==
    [][<<best_size, best_nodes>>' # <<best_size, best_nodes>> =>
          \E i \in Attempts :
              /\ seen' = Append(seen, i)
              /\ res[i].success
              /\ res[i].size > best_size
              /\ best_size' = res[i].size
              /\ best_nodes' = res[i].nodes]_vars

\* C20 as stated: the stored best is replaced only by a successful,
\* strictly larger result, and the node set returned is that of the
\* attempt that completed first among those of the returned size.
TieKeepsFirstCompleted ==
    /\ ReplacedOnlyByLarger
    /\ []((spc = "done" /\ Top # {}) =>
             best_nodes = res[FirstOf(fin, Top)].nodes)

\* C20 amended: the stored best is replaced only by a successful, strictly
\* larger result, so the node set returned is that of the attempt that
\* as_completed yielded first among those of the returned size.  Futures
\* that complete after the loop began are yielded in the order they
\* complete; those complete before it began are yielded first, in no
\* order.  So the node set is that of the first to complete whenever at
\* most one attempt was complete when the loop began.
TieKeepsFirstYielded ==
    /\ ReplacedOnlyByLarger
    /\ []((spc = "done" /\ Top # {}) =>
             /\ best_nodes = res[FirstOf(seen, Top)].nodes
             /\ snap <= 1 => best_nodes = res[FirstOf(fin, Top)].nodes)
    /\ [](\A k \in 1 .. Len(seen) :
             IF k > snap
             THEN seen[k] = fin[k]
             ELSE \E m \in 1 .. snap : seen[k] = fin[m])

\* C20 witness: a return where two successful attempts of the returned size
\* hold different node sets and the one yielded first, whose nodes are
\* returned, completed after the other.
TieKeepsFirstYieldedWitness ==
    /\ spc = "done"
    /\ Cardinality(Top) >= 2
    /\ FirstOf(seen, Top) # FirstOf(fin, Top)
    /\ res[FirstOf(seen, Top)].nodes # res[FirstOf(fin, Top)].nodes
    /\ best_nodes = res[FirstOf(seen, Top)].nodes

----------------------------------------------------------------------------
(* run_with_timeout_fn and run_benchmark *)

\* G.number_of_nodes() >= 1000: the graph is skipped
NodeCeiling == 1000
\* G.number_of_edges() > 5000 ...
EdgeTrigger == 5000
\* ... and G.number_of_nodes() >= 120: the fallback solver runs at once
NodeTrigger == 120
\* row['Ratio'] >= 0.90, in hundredths
NearOptimalPct == 90

\* What load_dimacs_graph and get_optimal_size read for each instance: the
\* node count, the edge count and the size of the best known solution.
Instance(g) ==
    CASE g = "a" -> [n |-> 4, m |-> 4, opt |-> 3]
      [] g = "b" -> [n |-> 150, m |-> 6000, opt |-> 3]
      [] g = "c" -> [n |-> 1000, m |-> 2000, opt |-> 3]
      [] OTHER -> [n |-> 4, m |-> 4, opt |-> 0]

\* what solve_graph_parallel or solve_large_graph returns: (size, nodes)
SolverResults == {[size |-> k, nodes |-> NodeSet(k)] : k \in 0 .. MaxSolSize}

\* fractions <<numerator, denominator>>, denominator > 0
RatioGreater(x, y) == x[1] * y[2] > y[1] * x[2]

RatioAtLeastPct(x, pct) == x[1] * 100 >= pct * x[2]

\* `(qaoa_size/opt_size) if opt_size > 0 else 0`
NewRatio(size, opt) == IF opt > 0 THEN <<size, opt>> ELSE <<0, 1>>

HasRow(c, g) == \E i \in DOMAIN c : c[i].Graph = g

\* row.iloc[0] of existing[existing['Graph'] == name]
FirstRow(c, g) ==
    c[CHOOSE i \in DOMAIN c :
          c[i].Graph = g /\ \A j \in DOMAIN c : j < i => c[j].Graph # g]

\* A mutated write: the row is appended even when the graph has one.
WriteRowAppends(c, stats) == Append(c, stats)

\* lines 234-245: the rows of the graph are overwritten, or one is appended
WriteRow(c, stats) ==
    IF HasRow(c, stats.Graph)
    THEN [i \in DOMAIN c |->
              IF c[i].Graph = stats.Graph THEN stats ELSE c[i]]
    ELSE Append(c, stats)

\* the dict `stats` (without the wall-clock Time)
Stats(g, size, st, fbUsed, fbTimeout) ==
    [Graph |-> g,
     Nodes |-> Instance(g).n,
     Edges |-> Instance(g).m,
     Opt_Size |-> Instance(g).opt,
     QAOA_Size |-> size,
     Ratio |-> NewRatio(size, Instance(g).opt),
     Timeout |-> IF st = "timeout" THEN 1 ELSE 0,
     Fallback |-> IF fbUsed THEN 1 ELSE 0,
     Fallback_Timeout |-> IF fbTimeout THEN 1 ELSE 0]

\* A mutated test: an equal ratio is saved again.
ShouldSaveNotStrict(size, new, old) == size > 0 /\ ~RatioGreater(old, new)

\* `if qaoa_size > 0 and new_ratio > old_ratio`
ShouldSave(size, new, old) == size > 0 /\ RatioGreater(new, old)

\* the skip test of lines 146-149
NearOptimal(g) ==
    /\ g \in processed
    /\ HasRow(csv, g)
    /\ RatioAtLeastPct(FirstRow(csv, g).Ratio, NearOptimalPct)

\* line 173
TooManyEdges(g) ==
    Instance(g).m > EdgeTrigger /\ Instance(g).n >= NodeTrigger

\* executor.submit(fn, *args) in a fresh one-worker pool, then the caller
\* blocks in future.result(timeout=timeout_seconds)
Submit ==
    /\ rwPc' = "waiting"
    /\ work' = "running"
    /\ hangs' \in BOOLEAN
    /\ workVal' = NoSolution
    /\ expired' = FALSE
    /\ rwRet' = NoReturn

BenchInit ==
    /\ RepairIdle
    /\ SplitIdle
    /\ SolveIdle
    /\ BenchIdle
    /\ LargeIdle

\* the submitted call returns in the worker process
WorkReturns ==
    /\ work = "running"
    /\ ~hangs
    /\ work' = "value"
    /\ workVal' \in SolverResults
    /\ UNCHANGED <<rwPc, hangs, expired, rwRet>>
    /\ UNCHANGED <<driverVars, repairVars, splitVars, solveVars, largeVars>>

\* the submitted call raises in the worker process
WorkRaises ==
    /\ work = "running"
    /\ ~hangs
    /\ work' = "error"
    /\ UNCHANGED <<rwPc, hangs, workVal, expired, rwRet>>
    /\ UNCHANGED <<driverVars, repairVars, splitVars, solveVars, largeVars>>

\* timeout_seconds pass while the caller waits for the running call
DeadlineExpires ==
    /\ rwPc = "waiting"
    /\ work = "running"
    /\ ~expired
    /\ expired' = TRUE
    /\ UNCHANGED <<rwPc, work, hangs, workVal, rwRet>>
    /\ UNCHANGED <<driverVars, repairVars, splitVars, solveVars, largeVars>>

\* future.result returns the value: `return "ok", result`
ResultOk ==
    /\ rwPc = "waiting"
    /\ work = "value"
    /\ rwRet' = [status |-> "ok", result |-> workVal]
    /\ rwPc' = "exit"
    /\ UNCHANGED <<work, hangs, workVal, expired>>
    /\ UNCHANGED <<driverVars, repairVars, splitVars, solveVars, largeVars>>

\* future.result re-raises what the call raised: `except Exception`,
\* future.cancel(), `return "timeout", None`
ResultError ==
    /\ rwPc = "waiting"
    /\ work = "error"
    /\ rwRet' = [status |-> "timeout", result |-> NoSolution]
    /\ rwPc' = "exit"
    /\ UNCHANGED <<work, hangs, workVal, expired>>
    /\ UNCHANGED <<driverVars, repairVars, splitVars, solveVars, largeVars>>

\* future.result raises TimeoutError: `except Exception`, future.cancel()
\* (without effect on a running call), `return "timeout", None`
ResultTimeout ==
    /\ rwPc = "waiting"
    /\ work = "running"
    /\ expired
    /\ rwRet' = [status |-> "timeout", result |-> NoSolution]
    /\ rwPc' = "exit"
    /\ UNCHANGED <<work, hangs, workVal, expired>>
    /\ UNCHANGED <<driverVars, repairVars, splitVars, solveVars, largeVars>>

\* A mutated exit: the pool is shut down without waiting for the call.
PoolJoinedNoWait(w) == TRUE

\* leaving `with ProcessPoolExecutor(...)` calls shutdown(wait=True), which
\* returns once the worker has finished the call it is running
PoolJoined(w) == w # "running"

\* the return statement completes when the with block has been left
ExitWith ==
    /\ rwPc = "exit"
    /\ PoolJoined(work)
    /\ rwPc' = "returned"
    /\ UNCHANGED <<work, hangs, workVal, expired, rwRet>>
    /\ UNCHANGED <<driverVars, repairVars, splitVars, solveVars, largeVars>>

RunnerIdle ==
    /\ rwPc' = "idle"
    /\ work' = "none"
    /\ hangs' = FALSE
    /\ workVal' = NoSolution
    /\ expired' = FALSE
    /\ rwRet' = NoReturn

\* lines 131-139: `processed` is read from OUTPUT_FILE, the files are listed
StartRun ==
    /\ dpc = "idle"
    /\ runs < MaxRuns
    /\ runs' = runs + 1
    /\ processed' = {g \in Names : HasRow(csv, g)}
    /\ todo' = Files
    /\ dpc' = "loop"
    /\ UNCHANGED <<csv, sol, name, old_ratio, status, too_many_edges,
                   fallback_used, fallback_timeout, qaoa>>
    /\ UNCHANGED <<runnerVars, repairVars, splitVars, solveVars, largeVars>>

\* lines 142-151: the graph has a row with a ratio >= 0.90: `continue`
SkipNearOptimal ==
    /\ dpc = "loop"
    /\ todo # <<>>
    /\ NearOptimal(Head(todo))
    /\ name' = Head(todo)
    /\ old_ratio' = <<0, 1>>
    /\ todo' = Tail(todo)
    /\ UNCHANGED <<csv, sol, runs, dpc, processed, status, too_many_edges,
                   fallback_used, fallback_timeout, qaoa>>
    /\ UNCHANGED <<runnerVars, repairVars, splitVars, solveVars, largeVars>>

\* A mutated resume: the stored ratio is not read, old_ratio stays 0.0.
OldRatioZero(g) == <<0, 1>>

\* old_ratio after lines 143-154
OldRatio(g) ==
    IF g \in processed /\ HasRow(csv, g) THEN FirstRow(csv, g).Ratio
                                         ELSE <<0, 1>>

\* lines 157-160: the graph has 1000 nodes or more: `continue`
SkipTooLarge ==
    /\ dpc = "loop"
    /\ todo # <<>>
    /\ ~NearOptimal(Head(todo))
    /\ Instance(Head(todo)).n >= NodeCeiling
    /\ name' = Head(todo)
    /\ old_ratio' = OldRatio(Head(todo))
    /\ todo' = Tail(todo)
    /\ UNCHANGED <<csv, sol, runs, dpc, processed, status, too_many_edges,
                   fallback_used, fallback_timeout, qaoa>>
    /\ UNCHANGED <<runnerVars, repairVars, splitVars, solveVars, largeVars>>

\* lines 142-182: the direct attempt is submitted
BeginDirect ==
    /\ dpc = "loop"
    /\ todo # <<>>
    /\ ~NearOptimal(Head(todo))
    /\ Instance(Head(todo)).n < NodeCeiling
    /\ ~TooManyEdges(Head(todo))
    /\ name' = Head(todo)
    /\ old_ratio' = OldRatio(Head(todo))
    /\ too_many_edges' = FALSE
    /\ status' = ""
    /\ fallback_timeout' = FALSE
    /\ fallback_used' = FALSE
    /\ Submit
    /\ dpc' = "direct"
    /\ UNCHANGED <<csv, sol, runs, processed, todo, qaoa>>
    /\ UNCHANGED <<repairVars, splitVars, solveVars, largeVars>>

\* lines 142-175, 191, 196: too many edges, the fallback is submitted at once
BeginFallback ==
    /\ dpc = "loop"
    /\ todo # <<>>
    /\ ~NearOptimal(Head(todo))
    /\ Instance(Head(todo)).n < NodeCeiling
    /\ TooManyEdges(Head(todo))
    /\ name' = Head(todo)
    /\ old_ratio' = OldRatio(Head(todo))
    /\ too_many_edges' = TRUE
    /\ status' = ""
    /\ fallback_timeout' = FALSE
    /\ fallback_used' = FALSE
    /\ Submit
    /\ dpc' = "fallback"
    /\ UNCHANGED <<csv, sol, runs, processed, todo, qaoa>>
    /\ UNCHANGED <<repairVars, splitVars, solveVars, largeVars>>

\* A mutated driver: the fallback is submitted although the direct attempt
\* returned "ok".
AfterDirectOkFallsBack ==
    /\ dpc = "direct"
    /\ rwPc = "returned"
    /\ rwRet.status = "ok"
    /\ status' = "ok"
    /\ qaoa' = rwRet.result
    /\ Submit
    /\ dpc' = "fallback"
    /\ UNCHANGED <<csv, sol, runs, processed, todo, name, old_ratio,
                   too_many_edges, fallback_used, fallback_timeout>>
    /\ UNCHANGED <<repairVars, splitVars, solveVars, largeVars>>

\* lines 178-189: the direct attempt returned "ok"
AfterDirectOk ==
    /\ dpc = "direct"
    /\ rwPc = "returned"
    /\ rwRet.status = "ok"
    /\ status' = "ok"
    /\ qaoa' = rwRet.result
    /\ RunnerIdle
    /\ dpc' = "evaluate"
    /\ UNCHANGED <<csv, sol, runs, processed, todo, name, old_ratio,
                   too_many_edges, fallback_used, fallback_timeout>>
    /\ UNCHANGED <<repairVars, splitVars, solveVars, largeVars>>

\* lines 178-196: the direct attempt returned "timeout", the fallback is
\* submitted
AfterDirectTimeout ==
    /\ dpc = "direct"
    /\ rwPc = "returned"
    /\ rwRet.status = "timeout"
    /\ status' = "timeout"
    /\ Submit
    /\ dpc' = "fallback"
    /\ UNCHANGED <<csv, sol, runs, processed, todo, name, old_ratio,
                   too_many_edges, fallback_used, fallback_timeout, qaoa>>
    /\ UNCHANGED <<repairVars, splitVars, solveVars, largeVars>>

\* lines 196-205: the fallback returned "ok"
AfterFallbackOk ==
    /\ dpc = "fallback"
    /\ rwPc = "returned"
    /\ rwRet.status = "ok"
    /\ fallback_used' = TRUE
    /\ qaoa' = rwRet.result
    /\ RunnerIdle
    /\ dpc' = "evaluate"
    /\ UNCHANGED <<csv, sol, runs, processed, todo, name, old_ratio, status,
                   too_many_edges, fallback_timeout>>
    /\ UNCHANGED <<repairVars, splitVars, solveVars, largeVars>>

\* A mutated driver: line 208 is left out, qaoa_size and qaoa_nodes keep
\* the values of the instance before.
AfterFallbackTimeoutKeepsSize ==
    /\ dpc = "fallback"
    /\ rwPc = "returned"
    /\ rwRet.status = "timeout"
    /\ fallback_used' = TRUE
    /\ fallback_timeout' = TRUE
    /\ RunnerIdle
    /\ dpc' = "evaluate"
    /\ UNCHANGED <<csv, sol, runs, processed, todo, name, old_ratio, status,
                   too_many_edges, qaoa>>
    /\ UNCHANGED <<repairVars, splitVars, solveVars, largeVars>>

\* lines 196-209: the fallback returned "timeout": no solution
AfterFallbackTimeout ==
    /\ dpc = "fallback"
    /\ rwPc = "returned"
    /\ rwRet.status = "timeout"
    /\ fallback_used' = TRUE
    /\ qaoa' = NoSolution
    /\ fallback_timeout' = TRUE
    /\ RunnerIdle
    /\ dpc' = "evaluate"
    /\ UNCHANGED <<csv, sol, runs, processed, todo, name, old_ratio, status,
                   too_many_edges>>
    /\ UNCHANGED <<repairVars, splitVars, solveVars, largeVars>>

\* lines 213-246: the solution file and the row are written
Persist ==
    /\ dpc = "evaluate"
    /\ ShouldSave(qaoa.size, NewRatio(qaoa.size, Instance(name).opt),
                  old_ratio)
    /\ sol' = [sol EXCEPT ![name] = [present |-> TRUE, size |-> qaoa.size,
                                     nodes |-> qaoa.nodes]]
    /\ csv' = WriteRow(csv, Stats(name, qaoa.size, status, fallback_used,
                                  fallback_timeout))
    /\ processed' = processed \cup {name}
    /\ todo' = Tail(todo)
    /\ dpc' = "loop"
    /\ UNCHANGED <<runs, name, old_ratio, status, too_many_edges,
                   fallback_used, fallback_timeout, qaoa>>
    /\ UNCHANGED <<runnerVars, repairVars, splitVars, solveVars, largeVars>>

\* lines 213-214, 247-249: nothing is written
SkipSave ==
    /\ dpc = "evaluate"
    /\ ~ShouldSave(qaoa.size, NewRatio(qaoa.size, Instance(name).opt),
                   old_ratio)
    /\ processed' = processed \cup {name}
    /\ todo' = Tail(todo)
    /\ dpc' = "loop"
    /\ UNCHANGED <<csv, sol, runs, name, old_ratio, status, too_many_edges,
                   fallback_used, fallback_timeout, qaoa>>
    /\ UNCHANGED <<runnerVars, repairVars, splitVars, solveVars, largeVars>>

\* the for loop is over: run_benchmark returns
EndRun ==
    /\ dpc = "loop"
    /\ todo = <<>>
    /\ dpc' = "idle"
    /\ UNCHANGED <<csv, sol, runs, processed, todo, name, old_ratio, status,
                   too_many_edges, fallback_used, fallback_timeout, qaoa>>
    /\ UNCHANGED <<runnerVars, repairVars, splitVars, solveVars, largeVars>>

BenchNext ==
    \/ StartRun
    \/ SkipNearOptimal
    \/ SkipTooLarge
    \/ BeginDirect
    \/ BeginFallback
    \/ WorkReturns
    \/ WorkRaises
    \/ DeadlineExpires
    \/ ResultOk
    \/ ResultError
    \/ ResultTimeout
    \/ ExitWith
    \/ AfterDirectOk
    \/ AfterDirectTimeout
    \/ AfterFallbackOk
    \/ AfterFallbackTimeout
    \/ Persist
    \/ SkipSave
    \/ EndRun

SpecBench == BenchInit /\ [][BenchNext]_vars

\* every process that can take a step takes one: the driver, the pool's
\* worker and the clock all keep running
FairBench == SpecBench /\ WF_vars(BenchNext)

----------------------------------------------------------------------------
(* Claims about run_with_timeout_fn and run_benchmark *)

\* C1 as stated: a call whose work runs past the deadline, work that never
\* finishes included, returns "timeout" to its caller without waiting for
\* the work to finish.
RunnerUnblocksAfterDeadline ==
    (expired /\ work = "running" /\ hangs)
        ~> (rwPc = "returned" /\ rwRet.status = "timeout")

\* the ratio of the row stored for g, 0 when there is none
StoredRatio(g) ==
    IF HasRow(csv, g) THEN FirstRow(csv, g).Ratio ELSE <<0, 1>>

\* the instance under evaluation achieved a size > 0 and a ratio strictly
\* greater than the stored one
Improved ==
    /\ dpc = "evaluate"
    /\ qaoa.size > 0
    /\ RatioGreater(NewRatio(qaoa.size, Instance(name).opt),
                    StoredRatio(name))

\* C10: the row and the solution file of an instance are written if and
\* only if the achieved size is > 0 and the new ratio is strictly greater
\* than the ratio stored before (0 without a row); otherwise both stay as
\* they are.
PersistIffImproved ==
    [][ /\ (csv' # csv) <=> Improved
        /\ (sol' # sol) <=> Improved
        /\ Improved =>
              /\ FirstRow(csv', name).QAOA_Size = qaoa.size
              /\ sol'[name].nodes = qaoa.nodes
              /\ \A g \in Names \ {name} : sol'[g] = sol[g] ]_vars

\* C10 witness: a stored row with a positive ratio has just been
\* overwritten by a strictly better one.
PersistIffImprovedWitness ==
    /\ dpc = "loop"
    /\ name = "a"
    /\ old_ratio[1] > 0
    /\ HasRow(csv, name)
    /\ FirstRow(csv, name).QAOA_Size = qaoa.size
    /\ RatioGreater(FirstRow(csv, name).Ratio, old_ratio)
    /\ sol[name].size = qaoa.size

\* the loop is at an instance that passes the skip test and the size gate
PassesGate ==
    /\ dpc = "loop"
    /\ todo # <<>>
    /\ ~NearOptimal(Head(todo))
    /\ Instance(Head(todo)).n < NodeCeiling

\* run_with_timeout_fn has returned the direct attempt with status st
DirectReturned(st) ==
    dpc = "direct" /\ rwPc = "returned" /\ rwRet.status = st

\* the flags of the instance under evaluation tell which attempts ran, and
\* no attempt is in flight any more
EvaluateAfterAttempts ==
    dpc = "evaluate" =>
        /\ rwPc = "idle"
        /\ work = "none"
        /\ fallback_used <=> (too_many_edges \/ status = "timeout")
        /\ status = "ok" => ~fallback_used
        /\ too_many_edges => status = ""

StoredNearOptimal(g) ==
    HasRow(csv, g) /\ RatioAtLeastPct(StoredRatio(g), NearOptimalPct)

\* C14: across runs, an instance whose stored ratio is at least 0.90 is
\* passed over without a solver call and without a change to its row or
\* its solution file; an instance with a stored ratio below 0.90 is solved
\* again, and what it achieves is compared with the stored ratio, not with
\* 0: a result that is not strictly better than the stored one changes
\* nothing.
ResumeAcrossRuns ==
    /\ [](dpc \in {"direct", "fallback", "evaluate"} =>
             old_ratio = StoredRatio(name))
    /\ [][ /\ (dpc = "loop" /\ todo # <<>> /\ StoredNearOptimal(Head(todo)))
                 => /\ dpc' = "loop"
                    /\ todo' = Tail(todo)
                    /\ csv' = csv
                    /\ sol' = sol
                    /\ rwPc' = "idle"
                    /\ work' = "none"
           /\ (/\ dpc = "loop"
               /\ todo # <<>>
               /\ HasRow(csv, Head(todo))
               /\ ~StoredNearOptimal(Head(todo)))
                 => /\ dpc' \in {"direct", "fallback"}
                    /\ work' = "running"
                    /\ name' = Head(todo)
                    /\ old_ratio' = StoredRatio(Head(todo))
           /\ (/\ dpc = "evaluate"
               /\ ~RatioGreater(NewRatio(qaoa.size, Instance(name).opt),
                                StoredRatio(name)))
                 => (csv' = csv /\ sol' = sol) ]_vars

\* C14 witness: in a later run an instance stored with a ratio below 0.90
\* has been solved again, achieved a size > 0 but no better ratio, and its
\* row is as it was.
ResumeAcrossRunsWitness ==
    /\ dpc = "loop"
    /\ runs >= 2
    /\ name = "a"
    /\ old_ratio[1] > 0
    /\ qaoa.size > 0
    /\ ~RatioGreater(NewRatio(qaoa.size, Instance(name).opt), old_ratio)
    /\ StoredRatio(name) = old_ratio

\* the rows of the table that belong to g
RowsOf(c, g) == {i \in DOMAIN c : c[i].Graph = g}

\* C15: after any sequence of runs every instance has at most one row in
\* the table; a row, once there, is never removed; and whenever a row
\* changes, its ratio becomes strictly greater (so it never decreases).
RecordsOnlyImprove ==
    /\ [](\A g \in Names : Cardinality(RowsOf(csv, g)) <= 1)
    /\ [][\A g \in Names :
             HasRow(csv, g) =>
                 /\ HasRow(csv', g)
                 /\ FirstRow(csv', g) # FirstRow(csv, g) =>
                       RatioGreater(FirstRow(csv', g).Ratio,
                                    FirstRow(csv, g).Ratio)]_vars

\* C15 witness: two instances have a row each, and the row of the second
\* has just been replaced in a later run by one with a greater ratio.
RecordsOnlyImproveWitness ==
    /\ dpc = "loop"
    /\ runs >= 2
    /\ name = "b"
    /\ Len(csv) = 2
    /\ HasRow(csv, "a")
    /\ old_ratio[1] > 0
    /\ RatioGreater(StoredRatio("b"), old_ratio)

\* C16 as stated: within a run no outcome of an instance aborts the run;
\* whenever instances are left to process, the loop gets through every one
\* of them.
RunVisitsEveryInstance == (todo # <<>>) ~> (todo = <<>>)

\* C21: when the fallback attempt returns "timeout" the size is 0 and the
\* instance is skipped: no row and no solution file is written, the
\* instance is marked processed and the loop goes on; so no row of the
\* output file ever has Fallback_Timeout = 1.
FallbackTimeoutNeverStored ==
    /\ [](\A i \in DOMAIN csv : csv[i].Fallback_Timeout = 0)
    /\ []((dpc = "evaluate" /\ fallback_timeout) =>
             /\ fallback_used
             /\ qaoa = NoSolution
             /\ ~ShouldSave(qaoa.size, NewRatio(qaoa.size, Instance(name).opt),
                            old_ratio))
    /\ [][(dpc = "fallback" /\ dpc' # "fallback"
              /\ rwRet.status = "timeout") =>
             (fallback_timeout' /\ qaoa' = NoSolution)]_vars
    /\ [][(dpc = "evaluate" /\ fallback_timeout) =>
             /\ csv' = csv
             /\ sol' = sol
             /\ dpc' = "loop"
             /\ processed' = processed \cup {name}
             /\ todo' = Tail(todo)]_vars

\* C21 witness: the direct attempt and the fallback of an instance both
\* returned "timeout" and the instance was skipped: it is processed and has
\* neither a row nor a solution file.
FallbackTimeoutNeverStoredWitness ==
    /\ dpc = "loop"
    /\ status = "timeout"
    /\ fallback_used
    /\ fallback_timeout
    /\ qaoa.size = 0
    /\ name \in processed
    /\ ~HasRow(csv, name)
    /\ ~sol[name].present

\* C22: run_with_timeout_fn returns "timeout" only when timeout_seconds
\* passed while the call was still running: a call that returned or raised
\* before that is never given the status "timeout".
TimeoutOnlyAfterDeadline ==
    (rwPc \in {"exit", "returned"} /\ rwRet.status = "timeout") => expired

----------------------------------------------------------------------------
(* solve_large_graph *)

\* the dicts the attempts of solve_graph_parallel(G, config) can return
AttemptResults(G, nodes) ==
    {AttemptResult(o) : o \in OracleOutcomes(G, nodes)}

\* (best_size, best_nodes) after k more rounds of the as_completed loop,
\* starting from any pair of `bests`
RECURSIVE SolveFold(_, _, _)
SolveFold(bests, results, k) ==
    IF k = 0
    THEN bests
    ELSE SolveFold({IF Better(r, b.size)
                    THEN [size |-> r.size, nodes |-> r.nodes]
                    ELSE b : b \in bests, r \in results},
                   results, k - 1)

\* solve_graph_parallel as a function: every pair it can return for G
SolveOutcomes(G, nodes) ==
    SolveFold({NoSolution}, AttemptResults(G, nodes), NumAttempts)

\* the nodes of S in ascending order (ordering='sorted')
RECURSIVE SortedSeq(_)
SortedSeq(S) ==
    IF S = {}
    THEN <<>>
    ELSE LET least == CHOOSE x \in S : \A y \in S : x <= y
         IN  <<least>> \o SortedSeq(S \ {least})

\* subgraph_relabelled.nodes[idx]['original_label'] for the subgraph on S
OriginalLabel(S, idx) == SortedSeq(S)[idx + 1]

\* nx.convert_node_labels_to_integers(G.subgraph(S), first_label=0,
\* ordering='sorted', ...): the edges of the subgraph between the new labels
Relabelled(G, S) ==
    LET local == 0 .. (Cardinality(S) - 1)
        orig == SortedSeq(S)
    IN  {{p[1], p[2]} :
            p \in {q \in local \X local :
                      /\ q[1] < q[2]
                      /\ {orig[q[1] + 1], orig[q[2] + 1]} \in G}}

\* a list of returned node sets, with the number of detections that have
\* returned no partition
SplitResult(ps, others) == [pieces |-> ps, others |-> others]

\* the lists of `firsts` followed by what rest(o) returns, o being the
\* number of non-partitions seen when the first part has returned
Followed(firsts, rest(_)) ==
    UNION {LET after == rest(o)
           IN  {SplitResult(a.pieces \o b.pieces, b.others) :
                   a \in {x \in firsts : x.others = o}, b \in after} :
             o \in {x.others : x \in firsts}}

\* split_until_small as a function: every list of node sets it can return
\* for the subgraph on S, `others` detections having returned no partition
\* before the call; LoopOutcomes is the `for comm in communities` loop
RECURSIVE SplitOutcomes(_, _, _)
RECURSIVE LoopOutcomes(_, _, _, _)
SplitOutcomes(S, maxSize, others) ==
    IF Fits(Cardinality(S), maxSize)
    THEN {SplitResult(<<S>>, others)}
    ELSE UNION {
           LET now == IF IsPartition(S, comms) THEN others ELSE others + 1
           IN  IF Len(comms) = 1
               THEN UNION {LET second(o) == SplitOutcomes(h[2], maxSize, o)
                           IN  Followed(SplitOutcomes(h[1], maxSize, now),
                                        second) :
                             h \in Halves(S)}
               ELSE LoopOutcomes(S, comms, maxSize, now) :
           comms \in Communities(S, others)}

LoopOutcomes(S, comms, maxSize, others) ==
    IF comms = <<>>
    THEN {SplitResult(<<>>, others)}
    ELSE LET sub == Head(comms) \cap S
             first == IF NotSmaller(sub, Cardinality(S))
                      THEN {SplitResult(<<h[1], h[2]>>, others) :
                               h \in Halves(sub)}
                      ELSE IF Fits(Cardinality(sub), maxSize)
                           THEN {SplitResult(<<sub>>, others)}
                           ELSE SplitOutcomes(sub, maxSize, others)
             rest(o) == LoopOutcomes(S, Tail(comms), maxSize, o)
         IN  Followed(first, rest)

LargeInit ==
    /\ RepairIdle
    /\ SplitIdle
    /\ SolveIdle
    /\ BenchIdle
    /\ lG \in Graphs(NodeSet(LargeNodes), LargeEdges)
    /\ lMax \in 1 .. LargeNodes
    /\ lpc = "start"
    /\ lPieces = <<>>
    /\ lSub = {}
    /\ lCall = NoCall
    /\ lRet = NoSolution

\* lines 13-14: the graph fits, `return solve_graph_parallel(G, config)`
LargeDelegate ==
    /\ lpc = "start"
    /\ LargeNodes <= lMax
    /\ \E r \in SolveOutcomes(lG, NodeSet(LargeNodes)) :
          /\ lCall' = [made |-> TRUE, graph |-> lG,
                       nodes |-> NodeSet(LargeNodes), result |-> r]
          /\ lRet' = r
    /\ lpc' = "done"
    /\ UNCHANGED <<lG, lMax, lPieces, lSub>>
    /\ UNCHANGED <<repairVars, splitVars, solveVars, benchVars>>

\* lines 18-22: subgraphs = split_until_small(G, desired_max); here every
\* detection returns a partition of its graph's nodes, as both networkx
\* heuristics do
LargeSplit ==
    /\ lpc = "start"
    /\ LargeNodes > lMax
    /\ \E r \in SplitOutcomes(NodeSet(LargeNodes), lMax, MaxOther) :
          lPieces' = r.pieces
    /\ lpc' = "loop"
    /\ UNCHANGED <<lG, lMax, lSub, lCall, lRet>>
    /\ UNCHANGED <<repairVars, splitVars, solveVars, benchVars>>

\* lines 24-40: one subgraph is relabelled and solved, its solution is
\* mapped back to the original labels and appended to sub_solutions
LargeSolvePiece ==
    /\ lpc = "loop"
    /\ lPieces # <<>>
    /\ LET S == Head(lPieces)
           sub == Relabelled(lG, S)
           local == 0 .. (Cardinality(S) - 1)
       IN  \E r \in SolveOutcomes(sub, local) :
              /\ lCall' = [made |-> TRUE, graph |-> sub, nodes |-> local,
                           result |-> r]
              /\ lSub' = lSub \cup {OriginalLabel(S, idx) : idx \in r.nodes}
    /\ lPieces' = Tail(lPieces)
    /\ UNCHANGED <<lG, lMax, lpc, lRet>>
    /\ UNCHANGED <<repairVars, splitVars, solveVars, benchVars>>

\* A mutated solve_large_graph: the union of the partial solutions is
\* returned without the final repair_solution.
LargeRepairSkipped ==
    /\ lpc = "loop"
    /\ lPieces = <<>>
    /\ lRet' = [size |-> Cardinality(lSub), nodes |-> lSub]
    /\ lpc' = "done"
    /\ UNCHANGED <<lG, lMax, lPieces, lSub, lCall>>
    /\ UNCHANGED <<repairVars, splitVars, solveVars, benchVars>>

\* lines 43-48: final_valid_nodes = repair_solution(G, sub_solutions)
LargeRepair ==
    /\ lpc = "loop"
    /\ lPieces = <<>>
    /\ \E final \in RepairOutcomes(lG, lSub) :
          lRet' = [size |-> Cardinality(final), nodes |-> final]
    /\ lpc' = "done"
    /\ UNCHANGED <<lG, lMax, lPieces, lSub, lCall>>
    /\ UNCHANGED <<repairVars, splitVars, solveVars, benchVars>>

LargeNext ==
    \/ LargeDelegate
    \/ LargeSplit
    \/ LargeSolvePiece
    \/ LargeRepair

SpecLarge == LargeInit /\ [][LargeNext]_vars

----------------------------------------------------------------------------
(* Claims about solve_large_graph *)

\* C12: every node set returned by solve_graph_parallel and by
\* solve_large_graph is an independent set of the graph the call was
\* given, holds only nodes of that graph, and the returned size is the
\* number of nodes of the set; for solve_large_graph also when edges run
\* between the subgraphs.  (solve_graph_parallel is called on G itself at
\* line 14 and on each relabelled subgraph at line 34.)
ReturnsIndependentSets ==
    /\ lCall.made =>
          /\ IsIndependent(lCall.graph, lCall.result.nodes)
          /\ lCall.result.nodes \subseteq lCall.nodes
          /\ lCall.result.size = Cardinality(lCall.result.nodes)
    /\ lpc = "done" =>
          /\ IsIndependent(lG, lRet.nodes)
          /\ lRet.nodes \subseteq NodeSet(LargeNodes)
          /\ lRet.size = Cardinality(lRet.nodes)

\* C12 witness: solve_large_graph has returned a non-empty set although
\* the union of the partial solutions held two adjacent nodes.
ReturnsIndependentSetsWitness ==
    /\ lpc = "done"
    /\ ~IsIndependent(lG, lSub)
    /\ lRet.size > 0

====
